---- MODULE Spec2Model ----
(***************************************************************************)
(* Model of src/main.py: the /summarize request pipeline of the YouTube    *)
(* transcript service (extract_video_id, fetch_transcript_text with its    *)
(* retry loop, _normalize_items, summarize_with_hf, summarize_post).       *)
(*                                                                         *)
(* Python values are records tagged by type.  A Python str is a sequence   *)
(* of atoms: the whitespace characters " ", "\n", "\t" are atoms of their  *)
(* own, every other atom is a piece of non-whitespace text (one character  *)
(* in the texts and urls, a whole message in the error messages).  A call  *)
(* yields Return(v) or Raise(cls, m).                                      *)
(***************************************************************************)
EXTENDS Integers, Sequences, FiniteSets, TLC

VARIABLES
    ENABLE_SUMMARY,  \* main.py:22, read once at import
    HF_TOKEN,        \* main.py:23, already stripped; "" when unset
    req,             \* the Req of the request being handled
    pc,              \* where summarize_post is
    vid,             \* extract_video_id's result
    attempt,         \* the loop variable of fetch_transcript_text
    last_err,        \* fetch_transcript_text's last_err
    calls,           \* per upstream captions call so far: "items" or the exception's class
    sleeps,          \* the argument of every completed time.sleep
    upstream,        \* what the latest upstream captions call did
    transcript,      \* fetch_transcript_text's return value
    hf_posts,        \* the "inputs" of every requests.post to HF_API_URL
    hf_reply,        \* what the summarization endpoint did to the latest post
    response,        \* what summarize_post returned
    peer             \* a second request in flight: its locals, None when there is none

vars == <<ENABLE_SUMMARY, HF_TOKEN, req, pc, vid, attempt, last_err, calls,
          sleeps, upstream, transcript, hf_posts, hf_reply, response, peer>>

(***************************************************************************)
(* Python values                                                           *)
(***************************************************************************)
None == [ty |-> "none"]

\* A key a dict does not hold, an attribute an object does not have.
Missing == [ty |-> "missing"]

Str(s) == [ty |-> "str", s |-> s]

Num(n) == [ty |-> "num", n |-> n]

List(xs) == [ty |-> "list", xs |-> xs]

\* A JSON object of the summarization endpoint, by the two keys the code reads.
Dict(st, gt) == [ty |-> "dict", summary_text |-> st, generated_text |-> gt]

\* str(e) of an exception whose message is m.
MsgStr(m) == Str(IF m = "" THEN <<>> ELSE <<m>>)

Exc(cls, m) == [cls |-> cls, msg |-> m]

\* Python truthiness: None, "", 0, [] are false.
Truthy(v) ==
    CASE v.ty = "none" -> FALSE
      [] v.ty = "missing" -> FALSE
      [] v.ty = "str" -> v.s # <<>>
      [] v.ty = "num" -> v.n # 0
      [] v.ty = "list" -> v.xs # <<>>
      [] OTHER -> TRUE

\* a or b
Or(a, b) == IF Truthy(a) THEN a ELSE b

\* d.get(k, default) and getattr(o, k, default), given the slot of k.
Get(slot, default) == IF slot = Missing THEN default ELSE slot

(***************************************************************************)
(* str methods                                                             *)
(***************************************************************************)
Whitespace == {" ", "\n", "\t"}

RECURSIVE LStrip(_)
LStrip(s) ==
    IF s # <<>> /\ Head(s) \in Whitespace THEN LStrip(Tail(s)) ELSE s

RECURSIVE RStrip(_)
RStrip(s) ==
    IF s # <<>> /\ s[Len(s)] \in Whitespace
    THEN RStrip(SubSeq(s, 1, Len(s) - 1))
    ELSE s

\* s.strip()
Strip(s) == RStrip(LStrip(s))

\* s.replace("\n", " ")
ReplaceNewline(s) == [i \in 1..Len(s) |-> IF s[i] = "\n" THEN " " ELSE s[i]]

\* "\n".join(lines)
RECURSIVE JoinLines(_)
JoinLines(lines) ==
    IF lines = <<>> THEN <<>>
    ELSE IF Len(lines) = 1 THEN lines[1]
    ELSE lines[1] \o <<"\n">> \o JoinLines(Tail(lines))

(***************************************************************************)
(* extract_video_id (main.py:41-46)                                        *)
(***************************************************************************)
\* The character class [0-9A-Za-z_-] of the pattern.
IdChars ==
    {
     "0", "1", "2", "3", "4", "5", "6", "7", "8", "9", "A", "B", "C",
     "D", "E", "F", "G", "H", "I", "J", "K", "L", "M", "N", "O", "P",
     "Q", "R", "S", "T", "U", "V", "W", "X", "Y", "Z", "a", "b", "c",
     "d", "e", "f", "g", "h", "i", "j", "k", "l", "m", "n", "o", "p",
     "q", "r", "s", "t", "u", "v", "w", "x", "y", "z", "_", "-" }

\* {11}: the length of the captured group.
IdLen == 11

\* The alternatives (?:v=|youtu\.be/|shorts/|embed/|/v/), in the pattern's order.
Markers ==
    << <<"v", "=">>,
       <<"y", "o", "u", "t", "u", ".", "b", "e", "/">>,
       <<"s", "h", "o", "r", "t", "s", "/">>,
       <<"e", "m", "b", "e", "d", "/">>,
       <<"/", "v", "/">> >>

\* The marker mk, then IdLen characters of the class, starting at position i of s.
MatchAt(s, i, mk) ==
    /\ i + Len(mk) + IdLen - 1 <= Len(s)
    /\ SubSeq(s, i, i + Len(mk) - 1) = mk
    /\ \A k \in 0..(IdLen - 1) : s[i + Len(mk) + k] \in IdChars

\* The positions at which the pattern matches.
MatchPositions(s) ==
    {i \in 1..Len(s) : \E a \in 1..Len(Markers) : MatchAt(s, i, Markers[a])}

\* Mutant of SearchGroup: the rightmost match instead of the leftmost.
SearchLastGroup(s) ==
    LET i == CHOOSE p \in MatchPositions(s) : \A q \in MatchPositions(s) : p >= q
        a == CHOOSE b \in 1..Len(Markers) : MatchAt(s, i, Markers[b])
        from == i + Len(Markers[a])
    IN  SubSeq(s, from, from + IdLen - 1)

\* re.search: the leftmost match, and at it the first alternative that matches;
\* m.group(1) is what follows the marker.
SearchGroup(s) ==
    LET i == CHOOSE p \in MatchPositions(s) : \A q \in MatchPositions(s) : p <= q
        a == CHOOSE b \in 1..Len(Markers) :
                 /\ MatchAt(s, i, Markers[b])
                 /\ \A c \in 1..(b - 1) : ~MatchAt(s, i, Markers[c])
        from == i + Len(Markers[a])
    IN  SubSeq(s, from, from + IdLen - 1)

InvalidUrlMsg == "Invalid YouTube URL (could not find video id)."

\* The result of a call: a value returned or an exception raised.
Return(v) == [raised |-> FALSE, val |-> v]

Raise(cls, m) == [raised |-> TRUE, exc |-> Exc(cls, m)]

\* Mutant of SearchId: another message.
SearchIdShortMessage(u) ==
    IF MatchPositions(u) = {}
    THEN Raise("ValueError", "Invalid YouTube URL")
    ELSE Return(Str(SearchGroup(u)))

\* main.py:43-46, on the stripped url.
SearchId(u) ==
    IF MatchPositions(u) = {}
    THEN Raise("ValueError", InvalidUrlMsg)
    ELSE Return(Str(SearchGroup(u)))

extract_video_id(url) == SearchId(Strip(Or(url, Str(<<>>)).s))

(***************************************************************************)
(* _normalize_items (main.py:49-72)                                        *)
(***************************************************************************)
Digits == <<"0", "1", "2", "3", "4", "5", "6", "7", "8", "9">>

IsDigit(c) == \E d \in 1..Len(Digits) : Digits[d] = c

DigitVal(c) == (CHOOSE d \in 1..Len(Digits) : Digits[d] = c) - 1

RECURSIVE DecimalVal(_)
DecimalVal(s) ==
    IF s = <<>> THEN 0
    ELSE 10 * DecimalVal(SubSeq(s, 1, Len(s) - 1)) + DigitVal(s[Len(s)])

\* float(v): a number is kept, a str is parsed (surrounding whitespace allowed,
\* here decimal digits only), anything else is a TypeError.
Float(v) ==
    CASE v.ty = "num" -> Return(v)
      [] v.ty = "str" ->
            LET t == Strip(v.s)
            IN  IF t # <<>> /\ \A i \in 1..Len(t) : IsDigit(t[i])
                THEN Return(Num(DecimalVal(t)))
                ELSE Raise("ValueError", "could not convert string to float")
      [] OTHER -> Raise("TypeError", "float() argument must be a string or a real number")

\* A raw item of the captions library: a dict or an object (shape), and the
\* slot of each of the three names (Missing when the item has none).
RawItem(shape, text, start, duration) ==
    [shape |-> shape, text |-> text, start |-> start, duration |-> duration]

\* The dict literal of main.py:58-62 and 66-70, its values evaluated in order:
\* the dict, or the exception of the first float() that fails.
NormalizedDict(text, start, duration) ==
    IF start.raised THEN start
    ELSE IF duration.raised THEN duration
    ELSE Return([text |-> text, start |-> start.val, duration |-> duration.val])

\* Mutant of NormalizeOne: the attribute branch keeps a null text.
NormalizeOneNullTextKept(it) ==
    IF it.shape = "dict"
    THEN NormalizedDict(Or(Get(it.text, Str(<<>>)), Str(<<>>)),
                        Float(Or(Get(it.start, Num(0)), Num(0))),
                        Float(Or(Get(it.duration, Num(0)), Num(0))))
    ELSE NormalizedDict(Get(it.text, Str(<<>>)),
                        Float(Or(Get(it.start, Num(0)), Num(0))),
                        Float(Or(Get(it.duration, Num(0)), Num(0))))

\* main.py:56-71, one pass of the loop body.
NormalizeOne(it) ==
    IF it.shape = "dict"
    THEN NormalizedDict(Or(Get(it.text, Str(<<>>)), Str(<<>>)),
                        Float(Or(Get(it.start, Num(0)), Num(0))),
                        Float(Or(Get(it.duration, Num(0)), Num(0))))
    ELSE NormalizedDict(Or(Get(it.text, Str(<<>>)), Str(<<>>)),
                        Float(Or(Get(it.start, Num(0)), Num(0))),
                        Float(Or(Get(it.duration, Num(0)), Num(0))))

RECURSIVE NormalizeFrom(_, _, _)
RECURSIVE NormalizeAppend(_, _, _, _)
NormalizeAppend(items, i, normalized, one) ==
    IF one.raised THEN one
    ELSE NormalizeFrom(items, i + 1, Append(normalized, one.val))

\* main.py:55, the loop from item i on.
NormalizeFrom(items, i, normalized) ==
    IF i > Len(items) THEN Return(normalized)
    ELSE NormalizeAppend(items, i, normalized, NormalizeOne(items[i]))

_normalize_items(items) == NormalizeFrom(items, 1, <<>>)

(***************************************************************************)
(* fetch_transcript_text (main.py:75-118)                                  *)
(***************************************************************************)
\* main.py:98, x["text"].replace("\n", " ").strip()
CleanText(s) == Strip(ReplaceNewline(s))

\* main.py:98, the list comprehension: the items with a truthy text, cleaned;
\* a truthy text that is no str has no replace().
RECURSIVE LinesFrom(_, _, _)
LinesFrom(normalized, i, lines) ==
    IF i > Len(normalized) THEN Return(lines)
    ELSE IF ~Truthy(normalized[i].text) THEN LinesFrom(normalized, i + 1, lines)
    ELSE IF normalized[i].text.ty # "str"
    THEN Raise("AttributeError", "object has no attribute 'replace'")
    ELSE LinesFrom(normalized, i + 1, Append(lines, CleanText(normalized[i].text.s)))

\* Mutant of TranscriptLines: the lines in reverse order.
ReversedLines(normalized) ==
    LET r == LinesFrom(normalized, 1, <<>>)
    IN  IF r.raised THEN r
        ELSE Return([i \in 1..Len(r.val) |-> r.val[Len(r.val) + 1 - i]])

TranscriptLines(normalized) == LinesFrom(normalized, 1, <<>>)

\* main.py:99
JoinTranscript(lines) == Strip(JoinLines(lines))

EmptyTranscriptMsg == "Transcript returned empty text."

\* main.py:101-103
CheckNotEmpty(transcript_text) ==
    IF transcript_text = <<>>
    THEN Raise("ValueError", EmptyTranscriptMsg)
    ELSE Return(Str(transcript_text))

\* main.py:99-103, unless line 98 raised.
JoinAndCheck(lines) ==
    IF lines.raised THEN lines ELSE CheckNotEmpty(JoinTranscript(lines.val))

\* main.py:98-103, unless line 95 raised.
FormatNormalized(normalized) ==
    IF normalized.raised THEN normalized
    ELSE JoinAndCheck(TranscriptLines(normalized.val))

\* main.py:95-103: the try body after the upstream call returned items.
BuildTranscript(items) == FormatNormalized(_normalize_items(items))

\* main.py:85-103: the try body, given what the upstream call did.
TryBody(outcome) ==
    IF outcome.raised THEN outcome ELSE BuildTranscript(outcome.val)

BlockedClasses == {"IpBlocked", "RequestBlocked"}

PermanentClasses == {"TranscriptsDisabled", "NoTranscriptFound", "VideoUnavailable"}

BlockedMsg == "Blocked by YouTube (IP/Request blocked). Try later."

\* Mutant of MayRetry: the last attempt sleeps too.
MayRetryOnLast(att, max_retries) == att < max_retries

\* main.py:107 and 115: whether the handler sleeps and continues.
MayRetry(att, max_retries) == att < max_retries - 1

\* Mutant of Backoff: the attempt counted from 0.
BackoffFromZero(retry_delay, att) == retry_delay * att

\* main.py:108 and 116: the argument of time.sleep.
Backoff(retry_delay, att) == retry_delay * (att + 1)

\* Mutant of Handle: the catch-all clause raises at once.
HandleOtherAtOnce(exc, att, max_retries, retry_delay) ==
    IF exc.cls \in BlockedClasses
    THEN IF MayRetry(att, max_retries)
         THEN [act |-> "sleep", err |-> exc]
         ELSE [act |-> "raise", err |-> exc, exc |-> Exc("ConnectionError", BlockedMsg)]
    ELSE IF exc.cls \in PermanentClasses
    THEN [act |-> "raise", err |-> None, exc |-> Exc("ValueError", exc.msg)]
    ELSE [act |-> "raise", err |-> exc, exc |-> Exc("RuntimeError", exc.msg)]

\* Mutant of Handle: VideoUnavailable falls through to the catch-all clause.
HandleUnavailableRetried(exc, att, max_retries, retry_delay) ==
    IF exc.cls \in BlockedClasses
    THEN IF MayRetry(att, max_retries)
         THEN [act |-> "sleep", err |-> exc]
         ELSE [act |-> "raise", err |-> exc, exc |-> Exc("ConnectionError", BlockedMsg)]
    ELSE IF exc.cls \in {"TranscriptsDisabled", "NoTranscriptFound"}
    THEN [act |-> "raise", err |-> None, exc |-> Exc("ValueError", exc.msg)]
    ELSE IF MayRetry(att, max_retries)
    THEN [act |-> "sleep", err |-> exc]
    ELSE [act |-> "raise", err |-> exc, exc |-> Exc("RuntimeError", exc.msg)]

\* main.py:105-118: the except clauses, for the exception exc of the try body.
Handle(exc, att, max_retries, retry_delay) ==
    IF exc.cls \in BlockedClasses
    THEN IF MayRetry(att, max_retries)
         THEN [act |-> "sleep", err |-> exc]
         ELSE [act |-> "raise", err |-> exc, exc |-> Exc("ConnectionError", BlockedMsg)]
    ELSE IF exc.cls \in PermanentClasses
    THEN [act |-> "raise", err |-> None, exc |-> Exc("ValueError", exc.msg)]
    ELSE IF MayRetry(att, max_retries)
    THEN [act |-> "sleep", err |-> exc]
    ELSE [act |-> "raise", err |-> exc, exc |-> Exc("RuntimeError", exc.msg)]

\* Mutant of AfterBody: a try body that ran through before the last attempt
\* is followed by another attempt.
AfterBodyReturnsOnLast(body, att, max_retries, retry_delay) ==
    IF ~body.raised
    THEN IF MayRetry(att, max_retries)
         THEN [act |-> "sleep", err |-> None]
         ELSE [act |-> "return", val |-> body.val]
    ELSE Handle(body.exc, att, max_retries, retry_delay)

\* main.py:85-118, given the try body's result: the function returns (act
\* "return"), raises exc (act "raise"), or goes on to time.sleep (act "sleep");
\* err is what the handler assigned to last_err, None when it assigned nothing.
AfterBody(body, att, max_retries, retry_delay) ==
    IF ~body.raised THEN [act |-> "return", val |-> body.val]
    ELSE Handle(body.exc, att, max_retries, retry_delay)

\* main.py:85-118, one pass of the loop given what the upstream call did
\* (outcome: items returned, or an exception raised).
AttemptResult(outcome, att, max_retries, retry_delay) ==
    AfterBody(TryBody(outcome), att, max_retries, retry_delay)

(***************************************************************************)
(* summarize_with_hf (main.py:121-162)                                     *)
(***************************************************************************)
\* main.py:132, text[:6000]
SummaryMaxChars == 6000

\* Mutant of Truncate: the text is sent whole.
TruncateNone(s) == s

Truncate(s) == SubSeq(s, 1, IF Len(s) < SummaryMaxChars THEN Len(s) ELSE SummaryMaxChars)

HfErrorPrefix == "HF Inference error: "

\* main.py:162
Placeholder(m) == Str(<<HfErrorPrefix>> \o MsgStr(m).s)

\* main.py:155 and 157: rec.get("summary_text") or rec.get("generated_text", "");
\* only a dict has get().
PickSummary(rec) ==
    IF rec.ty # "dict"
    THEN Raise("AttributeError", "object has no attribute 'get'")
    ELSE Return(Or(Get(rec.summary_text, None), Get(rec.generated_text, Str(<<>>))))

\* main.py:154-159, given the parsed body.
ReadSummary(data) ==
    IF data.ty = "list" /\ Truthy(data) THEN PickSummary(data.xs[1])
    ELSE IF data.ty = "dict" THEN PickSummary(data)
    ELSE Return(Str(<<>>))

\* main.py:150-159, given what the endpoint did (hf): requests.post raised,
\* raise_for_status raised, r.json() raised, or the body parsed to hf.data.
PostAndRead(hf) ==
    IF hf.kind # "json" THEN Raise(hf.cls, hf.msg) ELSE ReadSummary(hf.data)

\* Mutant of Guarded: no try around the request.
Unguarded(got) == got

\* main.py:149 and 161-162: the try around got.
Guarded(got) == IF got.raised THEN Return(Placeholder(got.exc.msg)) ELSE got

\* main.py:149-162
AfterPost(hf) == Guarded(PostAndRead(hf))

\* Mutant of SkipsPost: the credential is not looked at.
SkipsPostTokenUnchecked(enabled, token, text) ==
    \/ ~enabled
    \/ Strip(Or(text, Str(<<>>)).s) = <<>>

\* main.py:122-130: whether the function returns "" before any request.
SkipsPost(enabled, token, text) ==
    \/ ~enabled
    \/ token = ""
    \/ Strip(Or(text, Str(<<>>)).s) = <<>>

\* The result of the call (res), and the "inputs" it posted (none or one).
summarize_with_hf(enabled, token, text, hf) ==
    IF SkipsPost(enabled, token, text)
    THEN [res |-> Return(Str(<<>>)), posts |-> <<>>]
    ELSE [res |-> AfterPost(hf),
          posts |-> <<Truncate(Strip(Or(text, Str(<<>>)).s))>>]

(***************************************************************************)
(* The inputs of the model                                                 *)
(***************************************************************************)
\* The largest max_retries and retry_delay a request carries.
MaxRetries == 3

MaxDelay == 2

UrlWatch ==
    <<"h", "t", "t", "p", "s", ":", "/", "/", "w", "w", "w", ".", "y", "o", "u",
      "t", "u", "b", "e", ".", "c", "o", "m", "/", "w", "a", "t", "c", "h", "?",
      "v", "=", "d", "Q", "w", "4", "w", "9", "W", "g", "X", "c", "Q">>

UrlShortPadded ==
    <<" ", "y", "o", "u", "t", "u", ".", "b", "e", "/", "a", "b", "c", "d", "e",
      "f", "g", "h", "i", "j", "k", "?", "t", "=", "1", "\n">>

UrlTooShort == <<"y", "o", "u", "t", "u", ".", "b", "e", "/", "a", "b", "c">>

Urls == {Str(UrlWatch), Str(UrlShortPadded), Str(UrlTooShort), Str(<<>>)}

\* Req (main.py:34-38): any str, any two ints, any bool.
Requests ==
    [url : Urls, max_retries : (0 - 1)..MaxRetries, retry_delay : (0 - 1)..MaxDelay,
     summarize : BOOLEAN]

Tokens == {"", "hf_token"}

Hello == Str(<<"h", "e", "l", "l", "o">>)

World == Str(<<"w", "o", "r", "l", "d">>)

\* What one upstream captions call can do: return a list of items or raise.
ItemLists ==
    { <<RawItem("dict", Hello, Num(0), Num(1)), RawItem("dict", World, Num(1), Num(1))>>,
      <<RawItem("obj", Str(<<"h", "i", "\n", "y", "o", "u">>), Num(0), Missing)>>,
      <<>>,
      <<RawItem("dict", Str(<<" ">>), Num(0), Num(1)), RawItem("obj", Missing, None, None)>>,
      <<RawItem("dict", Hello, Str(<<"a", "b", "c">>), Num(1))>>,
      <<RawItem("dict", Hello, Num(0), Num(1)), RawItem("dict", Str(<<" ">>), Num(1), Num(1)),
        RawItem("dict", World, Num(2), Num(1))>> }

UpstreamErrors ==
    { Exc("IpBlocked", "YouTube is blocking requests from your IP."),
      Exc("RequestBlocked", "YouTube is blocking your requests."),
      Exc("TranscriptsDisabled", "Transcripts are disabled for this video."),
      Exc("NoTranscriptFound", "No transcripts were found for the requested language."),
      Exc("VideoUnavailable", "The video is no longer available."),
      Exc("OSError", "connection reset") }

UpstreamOutcomes ==
    {Return(items) : items \in ItemLists} \cup {[raised |-> TRUE, exc |-> e] : e \in UpstreamErrors}

\* get_transcript does not exist in the installed library (main.py:89).
NoGetTranscript == [raised |-> TRUE, exc |-> Exc("AttributeError", "no attribute 'get_transcript'")]

\* main.py:87-93: get_transcript, or fetch() when get_transcript raises AttributeError.
UpstreamCall(first, second) ==
    IF first.raised /\ first.exc.cls = "AttributeError" THEN second ELSE first

CallKind(outcome) == IF outcome.raised THEN outcome.exc.cls ELSE "items"

Summary == Str(<<"s", "u", "m">>)

HfFailures ==
    { [kind |-> "post", cls |-> "ReadTimeout",
       msg |-> "Read timed out. (read timeout=180)"],
      [kind |-> "status", cls |-> "HTTPError",
       msg |-> "503 Server Error: Service Unavailable"],
      [kind |-> "decode", cls |-> "JSONDecodeError",
       msg |-> "Expecting value: line 1 column 1 (char 0)"] }

\* The parseable bodies: a list of one record with a summary, a record whose
\* generated_text is null, an error or "model loading" record (it holds neither
\* key), a list that starts with a string, an empty list.
Bodies ==
    { List(<<Dict(Summary, Missing)>>), Dict(Missing, None), Dict(Missing, Missing),
      List(<<Summary>>), List(<<>>) }

\* What the summarization endpoint can do to a post.
HfOutcomes == HfFailures \cup {[kind |-> "json", data |-> d] : d \in Bodies}

(***************************************************************************)
(* summarize_post (main.py:185-193), one request                           *)
(***************************************************************************)
NoResponse == None

\* main.py:191
Success(v, t, s) ==
    [video_id |-> v, transcript |-> t, summary |-> s, error |-> Str(<<>>)]

\* main.py:193
Failure(e) ==
    [video_id |-> Str(<<>>), transcript |-> Str(<<>>), summary |-> Str(<<>>),
     error |-> MsgStr(e.msg)]

Init ==
    /\ ENABLE_SUMMARY \in BOOLEAN
    /\ HF_TOKEN \in Tokens
    /\ req \in Requests
    /\ pc = "extract"
    /\ vid = None
    /\ attempt = 0
    /\ last_err = None
    /\ calls = <<>>
    /\ sleeps = <<>>
    /\ upstream = None
    /\ transcript = None
    /\ hf_posts = <<>>
    /\ hf_reply = None
    /\ response = NoResponse
    /\ peer = None

\* Mutant of Extracted: a failed extraction goes on with an empty id.
ExtractedNeverFails(r) ==
    /\ vid' = IF r.raised THEN Str(<<>>) ELSE r.val
    /\ pc' = "fetch"
    /\ response' = response

Extracted(r) ==
    IF r.raised
    THEN /\ response' = Failure(r.exc)
         /\ pc' = "done"
         /\ vid' = vid
    ELSE /\ vid' = r.val
         /\ pc' = "fetch"
         /\ response' = response

\* main.py:188, and 192-193 when it raises.
Extract ==
    /\ pc = "extract"
    /\ Extracted(extract_video_id(req.url))
    /\ UNCHANGED <<peer, ENABLE_SUMMARY, HF_TOKEN, req, attempt, last_err, calls, sleeps,
                   upstream, transcript, hf_posts, hf_reply>>

\* What one pass of the loop leaves behind, r being its AttemptResult.
Outcome(r) ==
    CASE r.act = "return" ->
           /\ transcript' = r.val
           /\ pc' = "summarize"
           /\ UNCHANGED <<last_err, response>>
      [] r.act = "sleep" ->
           /\ last_err' = r.err
           /\ pc' = "sleep"
           /\ UNCHANGED <<transcript, response>>
      [] r.act = "raise" ->
           /\ response' = Failure(r.exc)
           /\ pc' = "done"
           /\ last_err' = IF r.err = None THEN last_err ELSE r.err
           /\ UNCHANGED transcript

AttemptWith(outcome) ==
    /\ upstream' = outcome
    /\ calls' = Append(calls, CallKind(outcome))
    /\ Outcome(AttemptResult(outcome, attempt, req.max_retries, req.retry_delay))

\* main.py:84-118, one pass of the loop up to its return, raise or sleep.
Attempt ==
    /\ pc = "fetch"
    /\ attempt < req.max_retries
    /\ \E first \in UpstreamOutcomes \cup {NoGetTranscript}, second \in UpstreamOutcomes :
         AttemptWith(UpstreamCall(first, second))
    /\ UNCHANGED <<peer, ENABLE_SUMMARY, HF_TOKEN, req, vid, attempt, sleeps, hf_posts,
                   hf_reply>>

\* main.py:84 with nothing left in range(max_retries): the function falls off
\* its end and returns None.
LoopEnd ==
    /\ pc = "fetch"
    /\ attempt >= req.max_retries
    /\ transcript' = None
    /\ pc' = "summarize"
    /\ UNCHANGED <<peer, ENABLE_SUMMARY, HF_TOKEN, req, vid, attempt, last_err, calls,
                   sleeps, upstream, response, hf_posts, hf_reply>>

SleepMsg == "sleep length must be non-negative"

\* main.py:108-109 and 116-117: time.sleep, which raises ValueError for a
\* negative argument, then continue.
Sleep ==
    /\ pc = "sleep"
    /\ LET dur == Backoff(req.retry_delay, attempt)
       IN  IF dur < 0
           THEN /\ response' = Failure(Exc("ValueError", SleepMsg))
                /\ pc' = "done"
                /\ UNCHANGED <<sleeps, attempt>>
           ELSE /\ sleeps' = Append(sleeps, dur)
                /\ attempt' = attempt + 1
                /\ pc' = "fetch"
                /\ response' = response
    /\ UNCHANGED <<peer, ENABLE_SUMMARY, HF_TOKEN, req, vid, last_err, calls, upstream,
                   transcript, hf_posts, hf_reply>>

\* main.py:190-193, s being what summarize_with_hf did, or None when it was
\* not called.
Summarized(s, hf) ==
    IF s = None
    THEN /\ response' = Success(vid, transcript, Str(<<>>))
         /\ UNCHANGED <<hf_posts, hf_reply>>
    ELSE /\ hf_posts' = hf_posts \o s.posts
         /\ hf_reply' = IF s.posts = <<>> THEN hf_reply ELSE hf
         /\ response' = IF s.res.raised
                        THEN Failure(s.res.exc)
                        ELSE Success(vid, transcript, s.res.val)

\* Mutant of Summarize: the summarize flag is not looked at.
SummarizeFlagIgnored ==
    /\ pc = "summarize"
    /\ \E hf \in HfOutcomes :
         Summarized(summarize_with_hf(ENABLE_SUMMARY, HF_TOKEN, transcript, hf), hf)
    /\ pc' = "done"
    /\ UNCHANGED <<peer, ENABLE_SUMMARY, HF_TOKEN, req, vid, attempt, last_err, calls,
                   sleeps, upstream, transcript>>

\* main.py:190-191
Summarize ==
    /\ pc = "summarize"
    /\ \E hf \in HfOutcomes :
         Summarized(IF req.summarize
                    THEN summarize_with_hf(ENABLE_SUMMARY, HF_TOKEN, transcript, hf)
                    ELSE None, hf)
    /\ pc' = "done"
    /\ UNCHANGED <<peer, ENABLE_SUMMARY, HF_TOKEN, req, vid, attempt, last_err, calls,
                   sleeps, upstream, transcript>>

Next == Extract \/ Attempt \/ LoopEnd \/ Sleep \/ Summarize

Spec == Init /\ [][Next]_vars

\* A request's thread keeps running: an upstream call returns or raises, a
\* sleep ends, a post returns or raises.
InitFair ==
    /\ ENABLE_SUMMARY = TRUE
    /\ HF_TOKEN = "hf_token"
    /\ req \in [url : {Str(UrlWatch)}, max_retries : 0..MaxRetries,
                retry_delay : (0 - 1)..MaxDelay, summarize : {TRUE}]
    /\ pc = "extract"
    /\ vid = None
    /\ attempt = 0
    /\ last_err = None
    /\ calls = <<>>
    /\ sleeps = <<>>
    /\ upstream = None
    /\ transcript = None
    /\ hf_posts = <<>>
    /\ hf_reply = None
    /\ response = NoResponse
    /\ peer = None

FairSpec == InitFair /\ [][Next]_vars /\ WF_vars(Next)

(***************************************************************************)
(* extract_video_id on its own: the request stops once the id is extracted *)
(***************************************************************************)
VideoId == <<"d", "Q", "w", "4", "w", "9", "W", "g", "X", "c", "Q">>

OtherId == <<"a", "b", "c", "d", "e", "f", "g", "h", "i", "_", "-">>

\* What precedes the marker: nothing, whitespace, a path and query.
UrlHeads == {<<>>, <<" ">>, <<"y", ".", "c", "o", "/", "w", "?">>}

\* The five markers and three near misses.
UrlMarks ==
    { <<"v", "=">>,
      <<"y", "o", "u", "t", "u", ".", "b", "e", "/">>,
      <<"s", "h", "o", "r", "t", "s", "/">>,
      <<"e", "m", "b", "e", "d", "/">>,
      <<"/", "v", "/">>,
      <<"v">>,
      <<"V", "=">>,
      <<"e", "m", "b", "e", "d">> }

\* What follows the marker: 11, 10 or 12 characters of the class, 10 of them
\* and one outside it, one outside it before 11 of them, nothing.
UrlBodies ==
    { VideoId,
      SubSeq(VideoId, 1, 10),
      VideoId \o <<"Z">>,
      SubSeq(VideoId, 1, 10) \o <<"!">>,
      <<"!">> \o VideoId,
      <<>> }

\* What ends the url: nothing, a query, whitespace, a second marker and id.
UrlTails == {<<>>, <<"&", "t", "=", "1">>, <<"\n">>, <<"/", "v", "/">> \o OtherId}

UrlCases ==
    {Str(h \o m \o b \o t) : h \in UrlHeads, m \in UrlMarks, b \in UrlBodies, t \in UrlTails}

\* A request with Req's defaults (main.py:36-38) for each url.
InitUrl ==
    /\ ENABLE_SUMMARY = TRUE
    /\ HF_TOKEN = "hf_token"
    /\ req \in [url : UrlCases, max_retries : {3}, retry_delay : {2}, summarize : {TRUE}]
    /\ pc = "extract"
    /\ vid = None
    /\ attempt = 0
    /\ last_err = None
    /\ calls = <<>>
    /\ sleeps = <<>>
    /\ upstream = None
    /\ transcript = None
    /\ hf_posts = <<>>
    /\ hf_reply = None
    /\ response = NoResponse
    /\ peer = None

SpecUrl == InitUrl /\ [][Extract]_vars

(***************************************************************************)
(* One upstream call that returns items, over a wider choice of items      *)
(***************************************************************************)
\* The longest list of caption lines.
MaxItems == 2

\* Texts of caption lines: two words, one with a trailing newline, blank, empty.
LineTexts == {Hello, World, Str(Hello.s \o <<"\n">>), Str(<<" ">>), Str(<<>>)}

LineItems == {RawItem("dict", t, Num(0), Num(1)) : t \in LineTexts}

LineLists == UNION {[1..n -> LineItems] : n \in 0..MaxItems}

\* A slot present, missing or null.
SlotTexts == {Str(<<"h", "i">>), Str(<<>>), Missing, None}

SlotNumbers == {Num(2), Num(0), Str(<<"7">>), Missing, None}

\* One item of either shape for every combination of the three slots.
SlotLists ==
    {<<RawItem(sh, t, st, du)>> :
        sh \in {"dict", "obj"}, t \in SlotTexts, st \in SlotNumbers, du \in SlotNumbers}

\* A text one character longer than text[:6000] keeps, ending in "z".
LongText ==
    [i \in 1..(SummaryMaxChars + 1) |-> IF i = SummaryMaxChars + 1 THEN "z" ELSE "a"]

\* One item whose text has SummaryMaxChars + 1 characters, SummaryMaxChars, one less.
LongLists ==
    {<<RawItem("dict", Str(SubSeq(LongText, k, SummaryMaxChars + 1)), Num(0), Num(1))>> :
        k \in 1..3}

UnitItemLists == LineLists \cup SlotLists \cup LongLists

InitItems ==
    /\ ENABLE_SUMMARY \in BOOLEAN
    /\ HF_TOKEN \in Tokens
    /\ req \in [url : {Str(UrlWatch)}, max_retries : {0, 1}, retry_delay : {0},
                summarize : BOOLEAN]
    /\ pc = "extract"
    /\ vid = None
    /\ attempt = 0
    /\ last_err = None
    /\ calls = <<>>
    /\ sleeps = <<>>
    /\ upstream = None
    /\ transcript = None
    /\ hf_posts = <<>>
    /\ hf_reply = None
    /\ response = NoResponse
    /\ peer = None

\* main.py:84-118, one pass of the loop whose upstream call returns items.
AttemptItems ==
    /\ pc = "fetch"
    /\ attempt < req.max_retries
    /\ \E items \in UnitItemLists : AttemptWith(Return(items))
    /\ UNCHANGED <<peer, ENABLE_SUMMARY, HF_TOKEN, req, vid, attempt, sleeps, hf_posts,
                   hf_reply>>

NextItems == Extract \/ AttemptItems \/ LoopEnd \/ Summarize

SpecItems == InitItems /\ [][NextItems]_vars

(***************************************************************************)
(* Two requests in flight (main.py:185-198 called twice by the server)     *)
(***************************************************************************)
\* Mutant of EndpointsAsync: the endpoints declared async def.
EndpointsAsyncDef == TRUE

\* main.py:186 and 196: the endpoints are plain def functions, which the
\* server runs each in a worker thread of its own; an async def endpoint would
\* run on the one event-loop thread, which time.sleep holds.
EndpointsAsync == FALSE

\* Whether a request can take a step while the other one is at otherPc.
Runnable(otherPc) == ~(EndpointsAsync /\ otherPc = "sleep")

\* The locals of a request that has just arrived.
Arrived(r) ==
    [req |-> r, pc |-> "extract", vid |-> None, attempt |-> 0, last_err |-> None,
     calls |-> <<>>, sleeps |-> <<>>, upstream |-> None, transcript |-> None,
     hf_posts |-> <<>>, hf_reply |-> None, response |-> NoResponse]

\* main.py:188, and 192-193 when it raises.
PeerExtracted(p, r) ==
    IF r.raised
    THEN [p EXCEPT !.response = Failure(r.exc), !.pc = "done"]
    ELSE [p EXCEPT !.vid = r.val, !.pc = "fetch"]

PeerExtract ==
    /\ peer.pc = "extract"
    /\ peer' = PeerExtracted(peer, extract_video_id(peer.req.url))

\* What one pass of the loop leaves behind, r being its AttemptResult.
PeerOutcome(p, r) ==
    CASE r.act = "return" -> [p EXCEPT !.transcript = r.val, !.pc = "summarize"]
      [] r.act = "sleep" -> [p EXCEPT !.last_err = r.err, !.pc = "sleep"]
      [] r.act = "raise" ->
           [p EXCEPT !.response = Failure(r.exc), !.pc = "done",
                     !.last_err = IF r.err = None THEN @ ELSE r.err]

PeerAttemptWith(p, outcome) ==
    PeerOutcome([p EXCEPT !.upstream = outcome, !.calls = Append(@, CallKind(outcome))],
                AttemptResult(outcome, p.attempt, p.req.max_retries, p.req.retry_delay))

\* main.py:84-118, one pass of the loop up to its return, raise or sleep.
PeerAttempt ==
    /\ peer.pc = "fetch"
    /\ peer.attempt < peer.req.max_retries
    /\ \E first \in UpstreamOutcomes \cup {NoGetTranscript}, second \in UpstreamOutcomes :
         peer' = PeerAttemptWith(peer, UpstreamCall(first, second))

\* main.py:84 with nothing left in range(max_retries).
PeerLoopEnd ==
    /\ peer.pc = "fetch"
    /\ peer.attempt >= peer.req.max_retries
    /\ peer' = [peer EXCEPT !.transcript = None, !.pc = "summarize"]

\* main.py:108-109 and 116-117, dur being the argument of time.sleep.
PeerSlept(p, dur) ==
    IF dur < 0
    THEN [p EXCEPT !.response = Failure(Exc("ValueError", SleepMsg)), !.pc = "done"]
    ELSE [p EXCEPT !.sleeps = Append(@, dur), !.attempt = @ + 1, !.pc = "fetch"]

PeerSleep ==
    /\ peer.pc = "sleep"
    /\ peer' = PeerSlept(peer, Backoff(peer.req.retry_delay, peer.attempt))

\* main.py:190-193, s being what summarize_with_hf did, or None when it was
\* not called.
PeerSummarized(p, s, hf) ==
    IF s = None
    THEN [p EXCEPT !.response = Success(p.vid, p.transcript, Str(<<>>)), !.pc = "done"]
    ELSE [p EXCEPT !.hf_posts = @ \o s.posts,
                   !.hf_reply = IF s.posts = <<>> THEN @ ELSE hf,
                   !.response = IF s.res.raised
                                THEN Failure(s.res.exc)
                                ELSE Success(p.vid, p.transcript, s.res.val),
                   !.pc = "done"]

PeerSummarize ==
    /\ peer.pc = "summarize"
    /\ \E hf \in HfOutcomes :
         peer' = PeerSummarized(peer,
                                IF peer.req.summarize
                                THEN summarize_with_hf(ENABLE_SUMMARY, HF_TOKEN,
                                                       peer.transcript, hf)
                                ELSE None, hf)

\* A step of the second request; the first request's locals and the module's
\* globals are not its to write.
PeerNext ==
    /\ PeerExtract \/ PeerAttempt \/ PeerLoopEnd \/ PeerSleep \/ PeerSummarize
    /\ UNCHANGED <<ENABLE_SUMMARY, HF_TOKEN, req, pc, vid, attempt, last_err, calls,
                   sleeps, upstream, transcript, hf_posts, hf_reply, response>>

\* The requests two clients send at about the same time.
TwoRequests ==
    [url : {Str(UrlWatch), Str(UrlTooShort)}, max_retries : {0, 2}, retry_delay : {1},
     summarize : {TRUE}]

InitTwo ==
    /\ ENABLE_SUMMARY = TRUE
    /\ HF_TOKEN = "hf_token"
    /\ req \in TwoRequests
    /\ pc = "extract"
    /\ vid = None
    /\ attempt = 0
    /\ last_err = None
    /\ calls = <<>>
    /\ sleeps = <<>>
    /\ upstream = None
    /\ transcript = None
    /\ hf_posts = <<>>
    /\ hf_reply = None
    /\ response = NoResponse
    /\ \E r \in TwoRequests : peer = Arrived(r)

\* Either request takes its next step, unless the server cannot run it.
NextTwo ==
    \/ Runnable(peer.pc) /\ Next
    \/ Runnable(pc) /\ PeerNext

SpecTwo == InitTwo /\ [][NextTwo]_vars

(***************************************************************************)
(* Properties                                                              *)
(***************************************************************************)
\* The fetch of the request has started (extract_video_id returned).
FetchStarted == vid # None

BlockedSignals == {"IpBlocked", "RequestBlocked"}

PermanentSignals == {"TranscriptsDisabled", "NoTranscriptFound", "VideoUnavailable"}

\* An upstream call that raised something else.
OtherSignal(kind) == kind \notin BlockedSignals \cup PermanentSignals \cup {"items"}

\* The policy the claims about the retry loop assume.
ValidPolicy == req.max_retries >= 1 /\ req.retry_delay >= 0

\* The first m sleeps lasted retry_delay * 1, ..., retry_delay * m.
LinearSleeps(m) == \A i \in 1..m : sleeps[i] = req.retry_delay * i

\* C1: with max_retries = n >= 1 and retry_delay = d >= 0, while every upstream
\* call signals the transient block the fetch neither returns nor fails before
\* its n-th call, its i-th sleep lasts d * i, and it ends failed with the
\* Blocked error after exactly n calls and the n - 1 sleeps d*1 .. d*(n-1).
C1_BlockedExhaustsRetries ==
    (ValidPolicy /\ FetchStarted /\ \A k \in 1..Len(calls) : calls[k] \in BlockedSignals)
    => /\ pc \in {"fetch", "sleep", "done"}
       /\ Len(calls) <= req.max_retries
       /\ Len(sleeps) <= req.max_retries - 1
       /\ LinearSleeps(Len(sleeps))
       /\ pc = "done" =>
            /\ Len(calls) = req.max_retries
            /\ Len(sleeps) = req.max_retries - 1
            /\ response = Failure(Exc("ConnectionError", BlockedMsg))

\* Three blocked calls with max_retries = 3, retry_delay = 2: slept 2 and 4.
C1_Witness ==
    /\ pc = "done"
    /\ req.max_retries = 3 /\ req.retry_delay = 2
    /\ Len(calls) = 3 /\ \A k \in 1..3 : calls[k] \in BlockedSignals
    /\ sleeps = <<2, 4>>
    /\ response.error = MsgStr(BlockedMsg)

\* C2 as stated: an upstream call that raises any other exception is the last
\* one: the fetch fails on that attempt, without a sleep, with the exception's
\* message.
C2_OtherFailsAtOnce ==
    \A k \in 1..Len(calls) :
        OtherSignal(calls[k]) =>
            /\ k = Len(calls)
            /\ pc = "done"
            /\ Len(sleeps) = k - 1
            /\ response = Failure(Exc("RuntimeError", upstream.exc.msg))

\* C2 amended: under a valid policy, an upstream call that raises any other
\* exception fails the fetch only when it is call number max_retries, then
\* without a sleep and with the exception's message; an earlier call number k
\* is followed by a sleep of retry_delay * k and another attempt.
C2_OtherRetriedThenFails ==
    ValidPolicy =>
    \A k \in 1..Len(calls) :
        OtherSignal(calls[k]) =>
            IF k = req.max_retries
            THEN /\ k = Len(calls)
                 /\ pc = "done"
                 /\ Len(sleeps) = k - 1
                 /\ response = Failure(Exc("RuntimeError", upstream.exc.msg))
            ELSE /\ k < req.max_retries
                 /\ \/ k = Len(calls) /\ pc = "sleep" /\ Len(sleeps) = k - 1
                    \/ Len(sleeps) >= k /\ sleeps[k] = req.retry_delay * k

\* The second of two calls raised OSError: one sleep, then the failure.
C2_Witness ==
    /\ pc = "done"
    /\ req.max_retries = 2 /\ req.retry_delay = 2
    /\ calls = <<"OSError", "OSError">>
    /\ sleeps = <<2>>
    /\ response.error = MsgStr("connection reset")

\* C3: an upstream call that raises TranscriptsDisabled, NoTranscriptFound or
\* VideoUnavailable is the last one, no sleep follows it, nothing is posted to
\* the summarization endpoint, and the response carries the upstream message
\* in error with video_id, transcript and summary empty.
C3_PermanentFailsAtOnce ==
    \A k \in 1..Len(calls) :
        calls[k] \in PermanentSignals =>
            /\ k = Len(calls)
            /\ pc = "done"
            /\ Len(sleeps) = k - 1
            /\ hf_posts = <<>>
            /\ response.error = MsgStr(upstream.exc.msg)
            /\ response.video_id = Str(<<>>)
            /\ response.transcript = Str(<<>>)
            /\ response.summary = Str(<<>>)

\* A blocked call, a sleep, then TranscriptsDisabled.
C3_Witness ==
    /\ pc = "done"
    /\ calls = <<"IpBlocked", "TranscriptsDisabled">>
    /\ Len(sleeps) = 1
    /\ response.error = MsgStr("Transcripts are disabled for this video.")

\* The two shapes of the response envelope.
SuccessShape(r) ==
    /\ r.error = Str(<<>>)
    /\ r.video_id.ty = "str" /\ Len(r.video_id.s) = 11
    /\ r.transcript.ty = "str" /\ r.transcript.s # <<>>

FailureShape(r) ==
    /\ r.error.ty = "str" /\ r.error.s # <<>>
    /\ r.video_id = Str(<<>>)
    /\ r.transcript = Str(<<>>)
    /\ r.summary = Str(<<>>)

\* C4 as stated: every response is a success (error "", an 11-character
\* video_id, a non-empty transcript string) or a failure (a non-empty error,
\* the other three fields ""), for every request and upstream behaviour.
C4_ResponseEnvelope ==
    pc = "done" => SuccessShape(response) \/ FailureShape(response)

\* The latest upstream call returned items whose joined text is empty.
EmptyJoined ==
    /\ upstream # None
    /\ ~upstream.raised
    /\ BuildTranscript(upstream.val) = Raise("ValueError", EmptyTranscriptMsg)

\* C5 as stated: under a valid policy a fetch that returned, returned a
\* non-empty text, and an upstream call whose items join to an empty text
\* fails the fetch with 'Transcript returned empty text.'.
C5_EmptyTranscriptFails ==
    ValidPolicy =>
        /\ pc = "summarize" => (transcript.ty = "str" /\ transcript.s # <<>>)
        /\ EmptyJoined =>
             /\ pc = "done"
             /\ response = Failure(Exc("RuntimeError", EmptyTranscriptMsg))

\* The text of a raw item as a str ("" when missing or null).
TextOf(it) == IF it.text.ty = "str" THEN it.text.s ELSE <<>>

\* The cleaned texts of the items whose trimmed text is non-empty, in order.
RECURSIVE NonBlankLines(_)
NonBlankLines(items) ==
    IF items = <<>> THEN <<>>
    ELSE (IF Strip(TextOf(Head(items))) = <<>>
          THEN <<>>
          ELSE <<Strip(ReplaceNewline(TextOf(Head(items))))>>)
         \o NonBlankLines(Tail(items))

\* C6 as stated: the transcript returned is the newline join of the cleaned
\* texts of the items whose trimmed text is non-empty; no line comes from an
\* item whose text is empty after trimming.
C6_NoLineForBlankItem ==
    (ValidPolicy /\ pc = "summarize" /\ upstream # None /\ ~upstream.raised)
    => transcript = Str(JoinLines(NonBlankLines(upstream.val)))

\* A start or duration slot that is missing, null or a non-numeric str.
Malformed(slot) ==
    \/ slot \in {Missing, None}
    \/ slot.ty = "str" /\ Float(slot).raised

Defaulted(it, n) ==
    /\ it.text = Missing => n.text = Str(<<>>)
    /\ Malformed(it.start) => n.start = Num(0)
    /\ Malformed(it.duration) => n.duration = Num(0)

NormalizedWithDefaults(items, r) ==
    /\ ~r.raised
    /\ Len(r.val) = Len(items)
    /\ \A i \in 1..Len(items) : Defaulted(items[i], r.val[i])

\* C7 as stated: _normalize_items raises for none of the item lists the
\* upstream returns; a missing text becomes "", a missing, null or non-numeric
\* start or duration becomes 0.0, and the fetch does not fail on such an item.
C7_NormalizeNeverRaises ==
    (ValidPolicy /\ upstream # None /\ ~upstream.raised)
    => /\ NormalizedWithDefaults(upstream.val, _normalize_items(upstream.val))
       /\ pc = "done" => response.error # MsgStr("could not convert string to float")

\* C8: once the fetch has returned a transcript, whatever the summarization
\* endpoint does, the response has error "" and carries the video id and the
\* transcript; its transcript is non-empty, which no failure response has.
C8_SummaryFailureNotFatal ==
    (pc = "done" /\ transcript # None)
    => /\ response.error = Str(<<>>)
       /\ response.video_id = vid
       /\ response.transcript = transcript
       /\ response.transcript.ty = "str" /\ response.transcript.s # <<>>

\* The post timed out: the response is a success with the placeholder summary.
C8_Witness ==
    /\ pc = "done"
    /\ hf_reply # None /\ hf_reply.kind = "post"
    /\ response.error = Str(<<>>)
    /\ response.transcript = Str(Hello.s \o <<"\n">> \o World.s)
    /\ response.summary = Placeholder(hf_reply.msg)

\* C9 as stated: for every parseable body of the summarization endpoint,
\* summarize_with_hf does not raise and what it returns is a string.
C9_SummaryIsString ==
    (ValidPolicy /\ pc = "done" /\ hf_reply # None /\ hf_reply.kind = "json")
    => /\ response.error = Str(<<>>)
       /\ response.summary.ty = "str"

\* C10: nothing is posted to the summarization endpoint unless HF_TOKEN is set
\* and ENABLE_SUMMARY is on; with HF_TOKEN unset the summary of every response
\* is "" and nothing was posted.
C10_NoTokenNoPost ==
    /\ hf_posts # <<>> => (HF_TOKEN # "" /\ ENABLE_SUMMARY)
    /\ (HF_TOKEN = "" /\ pc = "done") => (hf_posts = <<>> /\ response.summary = Str(<<>>))

\* A summary was asked for and enabled, the transcript was fetched, and with
\* no token the summary is "" and nothing was posted.
C10_Witness ==
    /\ pc = "done"
    /\ HF_TOKEN = "" /\ ENABLE_SUMMARY /\ req.summarize
    /\ response.transcript = Str(Hello.s \o <<"\n">> \o World.s)
    /\ response.summary = Str(<<>>)
    /\ hf_posts = <<>>

\* The markers as the claims list them.
ClaimMarkers ==
    { <<"v", "=">>,
      <<"y", "o", "u", "t", "u", ".", "b", "e", "/">>,
      <<"s", "h", "o", "r", "t", "s", "/">>,
      <<"e", "m", "b", "e", "d", "/">>,
      <<"/", "v", "/">> }

\* At position i of u stands the marker m, and right after it 11 characters
\* of [0-9A-Za-z_-] (whatever comes after those).
OccursAt(u, i, m) ==
    /\ i + Len(m) + 10 <= Len(u)
    /\ \A k \in 1..Len(m) : u[i + k - 1] = m[k]
    /\ \A k \in 1..11 : u[i + Len(m) + k - 1] \in IdChars

Occurrences(u) == {o \in (1..Len(u)) \X ClaimMarkers : OccursAt(u, o[1], o[2])}

\* The 11 characters after the marker of the occurrence that starts first.
FirstId(u) ==
    LET o == CHOOSE a \in Occurrences(u) : \A b \in Occurrences(u) : a[1] <= b[1]
    IN  SubSeq(u, o[1] + Len(o[2]), o[1] + Len(o[2]) + 10)

\* C11: extract_video_id returns an id exactly when the url contains one of
\* the markers v=, youtu.be/, shorts/, embed/, /v/ with 11 characters of
\* [0-9A-Za-z_-] right after it, and the id is then the 11 characters of the
\* first such occurrence; for every other url (the empty one, a marker with
\* fewer than 11 such characters after it) it fails with the invalid-url error.
C11_IdIffPattern ==
    pc # "extract" =>
        IF Occurrences(req.url.s) # {}
        THEN /\ pc = "fetch"
             /\ vid = Str(FirstId(req.url.s))
             /\ response = NoResponse
        ELSE /\ pc = "done"
             /\ vid = None
             /\ response.error = Str(<<"Invalid YouTube URL (could not find video id).">>)

\* v= with 12 characters of the class after it, then /v/ and another id: the
\* id is the first 11 characters after v=.
C11_Witness ==
    /\ pc = "fetch"
    /\ req.url = Str(<<" ", "v", "=">> \o VideoId \o <<"Z", "/", "v", "/">> \o OtherId)
    /\ vid = Str(VideoId)

\* The fetch returned a transcript built from the items of its latest call.
FetchedItems ==
    /\ pc \in {"summarize", "done"}
    /\ upstream # None /\ ~upstream.raised
    /\ transcript # None

\* The cleaned texts of the items that have a text, in the items' order.
RECURSIVE KeptLines(_)
KeptLines(items) ==
    IF items = <<>> THEN <<>>
    ELSE (IF TextOf(Head(items)) = <<>>
          THEN <<>>
          ELSE <<Strip(ReplaceNewline(TextOf(Head(items))))>>)
         \o KeptLines(Tail(items))

Swap(items, i, j) == [items EXCEPT ![i] = items[j], ![j] = items[i]]

\* The transcript's lines are the items' cleaned texts in the items' order.
LinesInOrder == transcript = Str(Strip(JoinLines(KeptLines(upstream.val))))

\* Items 'hello', 'world' for watch?v=dQw4w9WgXcQ: 'hello\nworld', and the
\* response carries it with video_id 'dQw4w9WgXcQ'.
HelloWorldExample ==
    upstream.val = <<RawItem("dict", Hello, Num(0), Num(1)), RawItem("dict", World, Num(0), Num(1))>>
    => /\ transcript = Str(Hello.s \o <<"\n">> \o World.s)
       /\ vid = Str(VideoId)
       /\ pc = "done" => (response.transcript = transcript /\ response.video_id = vid)

\* C12 as stated: the transcript's lines come in the items' order, the
\* hello/world example holds, and swapping two items whose texts are non-empty
\* and different changes the transcript.
C12_SwapOfDifferentTexts ==
    FetchedItems =>
        /\ LinesInOrder
        /\ HelloWorldExample
        /\ \A i, j \in 1..Len(upstream.val) :
              (/\ i < j
               /\ TextOf(upstream.val[i]) # <<>>
               /\ TextOf(upstream.val[j]) # <<>>
               /\ TextOf(upstream.val[i]) # TextOf(upstream.val[j]))
              => BuildTranscript(Swap(upstream.val, i, j)) # Return(transcript)

\* C12 amended: the transcript's lines come in the items' order, the
\* hello/world example holds, and swapping two items whose cleaned texts
\* (newlines replaced, trimmed) are non-empty and different changes the
\* transcript.
C12_SwapOfDifferentLines ==
    FetchedItems =>
        /\ LinesInOrder
        /\ HelloWorldExample
        /\ \A i, j \in 1..Len(upstream.val) :
              (/\ i < j
               /\ Strip(ReplaceNewline(TextOf(upstream.val[i]))) # <<>>
               /\ Strip(ReplaceNewline(TextOf(upstream.val[j]))) # <<>>
               /\ Strip(ReplaceNewline(TextOf(upstream.val[i])))
                    # Strip(ReplaceNewline(TextOf(upstream.val[j]))))
              => BuildTranscript(Swap(upstream.val, i, j)) # Return(transcript)

\* The response for the items 'world', 'hello': 'world\nhello'.
C12_Witness ==
    /\ pc = "done"
    /\ upstream = Return(<<RawItem("dict", World, Num(0), Num(1)),
                           RawItem("dict", Hello, Num(0), Num(1))>>)
    /\ response.transcript = Str(World.s \o <<"\n">> \o Hello.s)
    /\ response.video_id = Str(VideoId)

\* The same logical values held the other way: as keys, or as attributes.
Reshape(it, shape) == [it EXCEPT !.shape = shape]

\* A slot that is present with a value of its type, missing, or null.
PlainText(slot) == slot \in {Missing, None} \/ slot.ty = "str"

PlainNumber(slot) == slot \in {Missing, None} \/ slot.ty = "num"

\* C14: a raw item that holds text, start and duration as attributes and one
\* that holds the same values as mapping keys normalize to the same record,
\* whichever of the three are present, missing or null; the record's text is a
\* str and its start and duration are numbers.
C14_ShapesAgree ==
    (upstream # None /\ ~upstream.raised) =>
    \A i \in 1..Len(upstream.val) :
        /\ NormalizeOne(Reshape(upstream.val[i], "dict"))
             = NormalizeOne(Reshape(upstream.val[i], "obj"))
        /\ _normalize_items(<<Reshape(upstream.val[i], "dict")>>)
             = _normalize_items(<<Reshape(upstream.val[i], "obj")>>)
        /\ (/\ PlainText(upstream.val[i].text)
            /\ PlainNumber(upstream.val[i].start)
            /\ PlainNumber(upstream.val[i].duration))
           => /\ ~NormalizeOne(Reshape(upstream.val[i], "obj")).raised
              /\ NormalizeOne(Reshape(upstream.val[i], "obj")).val.text.ty = "str"
              /\ NormalizeOne(Reshape(upstream.val[i], "obj")).val.start.ty = "num"
              /\ NormalizeOne(Reshape(upstream.val[i], "obj")).val.duration.ty = "num"

\* An object with a null text, no start and duration 2 was fetched: it
\* normalizes to text "", start 0, duration 2, as the dict with these values.
C14_Witness ==
    /\ calls = <<"items">>
    /\ upstream = Return(<<RawItem("obj", None, Missing, Num(2))>>)
    /\ _normalize_items(upstream.val)
         = Return(<<[text |-> Str(<<>>), start |-> Num(0), duration |-> Num(2)]>>)
    /\ _normalize_items(<<RawItem("dict", None, Missing, Num(2))>>)
         = _normalize_items(upstream.val)

\* The text summarize_with_hf was given, whitespace-stripped ("" for None).
StrippedTranscript == IF transcript.ty = "str" THEN Strip(transcript.s) ELSE <<>>

\* C20: what is posted to the summarization endpoint is the prefix of the
\* whitespace-stripped transcript of length min(its length, 6000): never longer
\* than 6000 characters, the whole stripped text when that has at most 6000;
\* nothing is posted when the stripped text is empty.
C20_PostIsPrefix ==
    /\ StrippedTranscript = <<>> => hf_posts = <<>>
    /\ \A k \in 1..Len(hf_posts) :
          /\ Len(hf_posts[k]) <= 6000
          /\ Len(hf_posts[k]) <= Len(StrippedTranscript)
          /\ Len(hf_posts[k]) = 6000 \/ Len(hf_posts[k]) = Len(StrippedTranscript)
          /\ hf_posts[k] = SubSeq(StrippedTranscript, 1, Len(hf_posts[k]))

\* A transcript of 6001 characters ending in "z": its first 6000 were posted.
C20_Witness ==
    /\ pc = "done"
    /\ transcript.ty = "str"
    /\ Len(transcript.s) = 6001 /\ transcript.s[6001] = "z"
    /\ Len(hf_posts) = 1
    /\ Len(hf_posts[1]) = 6000 /\ hf_posts[1][6000] = "a"

RECURSIVE SumSeq(_)
SumSeq(q) == IF q = <<>> THEN 0 ELSE Head(q) + SumSeq(Tail(q))

\* C15: with max_retries = n >= 1 and retry_delay = d >= 0, whatever the
\* upstream calls do, there are at most n of them, the i-th sleep lasts d * i,
\* every sleep is followed by another call (none after the final one), and the
\* time slept in total is at most d * (1 + ... + (n - 1)).
C15_BoundedCallsAndSleeps ==
    ValidPolicy =>
        /\ Len(calls) <= req.max_retries
        /\ Len(sleeps) <= req.max_retries - 1
        /\ LinearSleeps(Len(sleeps))
        /\ Len(sleeps) <= Len(calls)
        /\ (FetchStarted /\ pc \in {"summarize", "done"}) => Len(sleeps) = Len(calls) - 1
        /\ SumSeq(sleeps) * 2 <= req.retry_delay * (req.max_retries - 1) * req.max_retries

\* An OSError, a block, then items, with n = 3 and d = 2: three calls, sleeps
\* of 2 and 4, none after the third call.
C15_Witness ==
    /\ pc = "done"
    /\ req.max_retries = 3 /\ req.retry_delay = 2
    /\ calls = <<"OSError", "IpBlocked", "items">>
    /\ sleeps = <<2, 4>>
    /\ response.error = Str(<<>>)

\* C16: at most one post goes to the summarization endpoint per request, only
\* once the fetch has returned a non-empty transcript from its latest call and
\* only when the summarize flag is true; with the flag false nothing is posted
\* and the summary of the response is "".
C16_OnePostAfterFetch ==
    /\ Len(hf_posts) <= 1
    /\ hf_posts # <<>> =>
          /\ req.summarize
          /\ pc = "done"
          /\ transcript.ty = "str" /\ transcript.s # <<>>
          /\ calls # <<>> /\ calls[Len(calls)] = "items"
    /\ ~req.summarize =>
          /\ hf_posts = <<>>
          /\ pc = "done" => response.summary = Str(<<>>)

\* A blocked call, then items: one post, and its summary in the response.
C16_Witness ==
    /\ pc = "done"
    /\ req.summarize
    /\ calls = <<"IpBlocked", "items">>
    /\ Len(hf_posts) = 1
    /\ response.summary = Summary

\* C18: for a url that holds no marker followed by 11 id characters, no
\* upstream captions call is made, nothing is posted to the summarization
\* endpoint, nothing is slept, and the request's only step ends it with an
\* error response.
C18_InvalidUrlCallsNothing ==
    Occurrences(req.url.s) = {} =>
        /\ pc \in {"extract", "done"}
        /\ pc = "extract" => ENABLED Extract
        /\ calls = <<>> /\ upstream = None
        /\ sleeps = <<>>
        /\ hf_posts = <<>> /\ hf_reply = None
        /\ pc = "done" => FailureShape(response)

\* youtu.be/abc: the error response, and nothing called.
C18_Witness ==
    /\ pc = "done"
    /\ req.url = Str(UrlTooShort)
    /\ response.error = Str(<<"Invalid YouTube URL (could not find video id).">>)
    /\ calls = <<>> /\ sleeps = <<>> /\ hf_posts = <<>>

\* The str hay holds the str needle as a run of consecutive characters.
Contains(hay, needle) ==
    \E i \in 0..(Len(hay) - Len(needle)) :
        \A k \in 1..Len(needle) : hay[i + k] = needle[k]

\* C19 as stated: when extract_video_id fails, the error of the response
\* carries the url the request gave.
C19_ErrorCarriesUrl ==
    (pc = "done" /\ Occurrences(req.url.s) = {})
    => Contains(response.error.s, req.url.s)

\* C19 amended: when extract_video_id fails, the error of the response is the
\* fixed message 'Invalid YouTube URL (could not find video id).', the same
\* for every url, and a non-empty url is no part of it.
C19_ErrorIsFixedMessage ==
    (pc = "done" /\ Occurrences(req.url.s) = {})
    => /\ response.error = Str(<<"Invalid YouTube URL (could not find video id).">>)
       /\ req.url.s # <<>> => ~Contains(response.error.s, req.url.s)

\* embed/ with ten id characters and '!': the fixed message.
C19_Witness ==
    /\ pc = "done"
    /\ req.url = Str(<<"e", "m", "b", "e", "d", "/">> \o SubSeq(VideoId, 1, 10) \o <<"!">>)
    /\ response.error = Str(<<"Invalid YouTube URL (could not find video id).">>)
    /\ response.video_id = Str(<<>>)

\* fetch_transcript_text has returned or raised.
FetchEnded == pc \in {"summarize", "done"}

\* The first Len(calls) - 1 calls were blocked and the latest returned items
\* that make a non-empty text.
BlockedThenText ==
    /\ calls # <<>>
    /\ \A j \in 1..(Len(calls) - 1) : calls[j] \in BlockedSignals
    /\ calls[Len(calls)] = "items"
    /\ ~BuildTranscript(upstream.val).raised

\* C17: with max_retries >= 1, whatever the upstream calls do,
\* fetch_transcript_text ends (returns or raises); when calls 1..k-1 were
\* blocked and call k makes a non-empty text, it has returned the transcript of
\* call k after k - 1 sleeps; and once it has ended no further upstream call
\* is made.
C17_FetchTerminates ==
    /\ [](BlockedThenText =>
            /\ FetchEnded
            /\ transcript = BuildTranscript(upstream.val).val
            /\ Len(calls) <= req.max_retries
            /\ Len(sleeps) = Len(calls) - 1)
    /\ [][FetchEnded => calls' = calls]_vars
    /\ ((req.max_retries >= 1) ~> FetchEnded)

\* Two blocked calls, then hello and world, with max_retries = 3: the
\* transcript of the third call is returned.
C17_Witness ==
    /\ pc = "summarize"
    /\ req.max_retries = 3
    /\ calls = <<"IpBlocked", "RequestBlocked", "items">>
    /\ transcript = Str(Hello.s \o <<"\n">> \o World.s)
    /\ Len(sleeps) = 2

\* The summary of a request r whose fetch returned text, hf being what the
\* endpoint did to its post.
SummaryFor(r, text, hf) ==
    IF r.summarize
    THEN summarize_with_hf(ENABLE_SUMMARY, HF_TOKEN, text, hf).res.val
    ELSE Str(<<>>)

FetchResponse(r, v, a, hf) ==
    IF a.act = "raise" THEN Failure(a.exc) ELSE Success(v, a.val, SummaryFor(r, a.val, hf))

\* The response of a request from what is its own: its body r, what its
\* extraction did (x), the number of its upstream calls and what the latest
\* did, and what the endpoint did to its post.
OwnResponse(r, x, ncalls, lastUp, hf) ==
    IF x.raised THEN Failure(x.exc)
    ELSE IF r.max_retries <= 0 THEN Success(x.val, None, SummaryFor(r, None, hf))
    ELSE FetchResponse(r, x.val,
                       AttemptResult(lastUp, ncalls - 1, r.max_retries, r.retry_delay), hf)

\* While one request sleeps in its backoff, the other, unless it has ended,
\* can take its next step.
SleepBlocksNobody ==
    /\ (peer.pc = "sleep" /\ pc # "done") => ENABLED (Runnable(peer.pc) /\ Next)
    /\ (pc = "sleep" /\ peer.pc # "done") => ENABLED (Runnable(pc) /\ PeerNext)

ResponsesOwn ==
    /\ pc = "done" =>
          response = OwnResponse(req, extract_video_id(req.url), Len(calls), upstream, hf_reply)
    /\ peer.pc = "done" =>
          peer.response = OwnResponse(peer.req, extract_video_id(peer.req.url),
                                      Len(peer.calls), peer.upstream, peer.hf_reply)

====
